---------------------------- MODULE Spec2Model ----------------------------
(***************************************************************************)
(* Model of the STUN attribute codec of crates/stun-types:                 *)
(*   attributes/fingerprint.rs  (CRC-32 engine, FINGERPRINT attribute)     *)
(*   attributes/integrity.rs    (MESSAGE-INTEGRITY, SHA-1 and SHA-256)     *)
(* together with the message builder and the message parser the two files  *)
(* call into (crate::builder, crate::parse, crate::header).                *)
(*                                                                         *)
(* Representation.  A byte is a number in 0..255.  A buffer is a sequence   *)
(* of bytes; Rust offsets are 0-based, so buf[lo..hi] is Slice(buf,lo,hi).  *)
(* A u32 is the tuple <<b0,b1,b2,b3>> of its bytes, least significant       *)
(* first (model integers are 32-bit signed, a u32 does not fit).            *)
(* u16 and usize values are plain naturals; u16::try_from is modelled by   *)
(* its range check against U16_MAX.                                        *)
(***************************************************************************)
EXTENDS Naturals, Sequences, FiniteSets

VARIABLES
    phase,    \* "crc" | "build" | "wire" | "parsed" | "rejected"
    buffer,   \* MessageBuilder: the growing output buffer
    added,    \* log of the add_attr_with calls made on the builder
    bres,     \* result of the last add_attr_with / finish
    wire,     \* the bytes handed to Message::parse
    sent,     \* the bytes MessageBuilder::finish returned
    msg,      \* the parsed Message: [buffer, attributes]
    dres,     \* record of the last attribute decode
    crcIn,    \* input of the last crc32 call of the CRC driver
    crcOut    \* its result

vars == <<phase, buffer, added, bres, wire, sent, msg, dres, crcIn, crcOut>>

-----------------------------------------------------------------------------
(* Bytes and 32-bit words                                                  *)

Byte == 0..255

\* the values of a u32
Word32 == Byte \X Byte \X Byte \X Byte

\* buf[lo..hi] of Rust (0-based, hi exclusive)
Slice(buf, lo, hi) == SubSeq(buf, lo + 1, hi)

\* one bit of XOR
XorBit(a, b) == IF a = b THEN 0 ELSE 1

\* XOR of two 4-bit values, bit by bit
XorNibble(a, b) ==
    XorBit(a % 2, b % 2)
    + 2 * XorBit((a \div 2) % 2, (b \div 2) % 2)
    + 4 * XorBit((a \div 4) % 2, (b \div 4) % 2)
    + 8 * XorBit((a \div 8) % 2, (b \div 8) % 2)

XOR4 == [a \in 0..15 |-> [b \in 0..15 |-> XorNibble(a, b)]]

\* a ^ b on u8
Xor8(a, b) == 16 * XOR4[a \div 16][b \div 16] + XOR4[a % 16][b % 16]

\* a ^ b on u32
Xor32(a, b) == <<Xor8(a[1], b[1]), Xor8(a[2], b[2]), Xor8(a[3], b[3]), Xor8(a[4], b[4])>>

\* c >> 1 on u32
Shr1(c) ==
    << (c[1] \div 2) + 128 * (c[2] % 2),
       (c[2] \div 2) + 128 * (c[3] % 2),
       (c[3] \div 2) + 128 * (c[4] % 2),
       (c[4] \div 2) >>

\* c >> 8 on u32
Shr8(c) == <<c[2], c[3], c[4], 0>>

\* n as u32, for n < 2^16
U32(n) == <<n % 256, n \div 256, 0, 0>>

\* 0xedb88320
CRC32_POLY == <<32, 131, 184, 237>>

\* 0xffffffff
U32_ONES == <<255, 255, 255, 255>>

\* 0x5354554e
FINGERPRINT_XOR == <<78, 85, 84, 83>>

\* BufMut::put_u32: the four bytes in network (big-endian) order
put_u32(v) == <<v[4], v[3], v[2], v[1]>>

\* ReadBytesExt::read_u32::<NE>: four bytes in network order to a u32
read_u32_NE(bytes) == <<bytes[4], bytes[3], bytes[2], bytes[1]>>

\* BufMut::put_u16
put_u16(n) == <<n \div 256, n % 256>>

\* read_u16::<NE>
read_u16_NE(bytes) == 256 * bytes[1] + bytes[2]

-----------------------------------------------------------------------------
(* Fingerprint: the CRC-32 engine (fingerprint.rs 13-58)                   *)

\* one round of the inner `while k < 8` loop of crc32_table
crc32_table_round(c) ==
    IF c[1] % 2 = 1 THEN Xor32(CRC32_POLY, Shr1(c)) ELSE Shr1(c)

RECURSIVE crc32_table_entry(_, _)
\* the value table[n] gets: eight rounds starting from c = n; each round's
\* value is computed before the next round starts
crc32_table_entry(c, k) ==
    IF k < 8
    THEN LET rounds == [c1 \in Word32 |-> crc32_table_entry(c1, k + 1)]
         IN  rounds[crc32_table_round(c)]
    ELSE c

crc32_table == [n \in 0..255 |-> crc32_table_entry(U32(n), 0)]

CRC32_TABLE == crc32_table

\* the body of the `while n < buf.len()` loop of update_crc32
update_crc32_step(c, b) == Xor32(CRC32_TABLE[Xor8(c[1], b)], Shr8(c))

RECURSIVE update_crc32_loop(_, _, _, _)
\* the loop of update_crc32 over buf[lo..hi], left to right.  The range is
\* cut into four consecutive parts instead of peeled byte by byte so that long
\* buffers do not nest deeply, and the value of c after each part is computed
\* before the next part starts.
update_crc32_loop(c, buf, lo, hi) ==
    IF hi <= lo THEN c
    ELSE IF hi = lo + 1 THEN update_crc32_step(c, buf[lo + 1])
    ELSE LET q     == (hi - lo + 3) \div 4
             m1    == lo + q
             m2    == IF lo + 2 * q < hi THEN lo + 2 * q ELSE hi
             m3    == IF lo + 3 * q < hi THEN lo + 3 * q ELSE hi
             part2 == [c1 \in Word32 |-> update_crc32_loop(c1, buf, m1, m2)]
             part3 == [c2 \in Word32 |-> update_crc32_loop(c2, buf, m2, m3)]
             part4 == [c3 \in Word32 |-> update_crc32_loop(c3, buf, m3, hi)]
         IN  part4[part3[part2[update_crc32_loop(c, buf, lo, m1)]]]

\* the whole loop of update_crc32 over buf, as a function of the value c holds
\* when the loop is entered
update_crc32_run(buf) == [c \in Word32 |-> update_crc32_loop(c, buf, 0, Len(buf))]

\* a plausible slip: the final complement is forgotten
update_crc32_NoFinalXor(crc, buf) ==
    update_crc32_run(buf)[Xor32(crc, U32_ONES)]

update_crc32(crc, buf) ==
    Xor32(update_crc32_run(buf)[Xor32(crc, U32_ONES)], U32_ONES)

crc32(buf) == update_crc32(U32(0), buf)

-----------------------------------------------------------------------------
(* Constants of crate::header, crate::attributes and the digests           *)

STUN_HEADER_LENGTH == 20

ATTRIBUTE_HEADER_LEN == 4

U16_MAX == 65535

\* Attribute::TYPE
TYPE_FINGERPRINT == 32808          \* 0x8028
TYPE_MESSAGE_INTEGRITY == 8        \* 0x0008
TYPE_MESSAGE_INTEGRITY_SHA256 == 28  \* 0x001C
TYPE_SOFTWARE == 32802             \* 0x8022
TYPE_DATA == 19                    \* 0x0013

Digests == {"Sha1", "Sha256"}

\* <D as Digest>::output_size()
output_size(D) == IF D = "Sha1" THEN 20 ELSE 32

IntegrityType(D) ==
    IF D = "Sha1" THEN TYPE_MESSAGE_INTEGRITY ELSE TYPE_MESSAGE_INTEGRITY_SHA256

\* padding to the next 4-byte boundary
padding_usize(n) == (4 - (n % 4)) % 4

Zeros(n) == [i \in 1..n |-> 0]

-----------------------------------------------------------------------------
(* Words of the digests (crates sha1, sha2): bitwise operations, rotations  *)
(* and additions modulo 2^32 on a u32 held as four bytes                    *)

\* one bit of AND
AndBit(a, b) == IF a = 1 /\ b = 1 THEN 1 ELSE 0

\* AND of two 4-bit values, bit by bit
AndNibble(a, b) ==
    AndBit(a % 2, b % 2)
    + 2 * AndBit((a \div 2) % 2, (b \div 2) % 2)
    + 4 * AndBit((a \div 4) % 2, (b \div 4) % 2)
    + 8 * AndBit((a \div 8) % 2, (b \div 8) % 2)

\* a & b on u8, tabulated: row a + 1, column b + 1
AND8 ==
    SubSeq([a \in 1..256 |->
               SubSeq([b \in 1..256 |->
                          16 * AndNibble((a - 1) \div 16, (b - 1) \div 16)
                          + AndNibble((a - 1) % 16, (b - 1) % 16)], 1, 256)], 1, 256)

\* a ^ b on u8, tabulated: row a + 1, column b + 1
XOR8 ==
    SubSeq([a \in 1..256 |->
               SubSeq([b \in 1..256 |-> Xor8(a - 1, b - 1)], 1, 256)], 1, 256)

\* the bytes of (x & y) ^ (!x & z), X and A the tables of ^ and &
Ch8(X, A, x, y, z) ==
    SubSeq([i \in 1..4 |->
               X[A[x[i] + 1][y[i] + 1] + 1][A[256 - x[i]][z[i] + 1] + 1]], 1, 4)

\* the bytes of (x & y) ^ (x & z) ^ (y & z)
Maj8(X, A, x, y, z) ==
    SubSeq([i \in 1..4 |->
               X[X[A[x[i] + 1][y[i] + 1] + 1][A[x[i] + 1][z[i] + 1] + 1] + 1]
                [A[y[i] + 1][z[i] + 1] + 1]], 1, 4)

\* the bytes of x ^ y ^ z
Parity8(X, x, y, z) ==
    SubSeq([i \in 1..4 |-> X[X[x[i] + 1][y[i] + 1] + 1][z[i] + 1]], 1, 4)

\* the bytes of a ^ b ^ c ^ d
Xor8x4(X, a, b, c, d) ==
    SubSeq([i \in 1..4 |->
               X[X[a[i] + 1][b[i] + 1] + 1][X[c[i] + 1][d[i] + 1] + 1]], 1, 4)

\* Ch(x, y, z) on u32
Ch32(x, y, z) == Ch8(XOR8, AND8, x, y, z)

\* Maj(x, y, z) on u32
Maj32(x, y, z) == Maj8(XOR8, AND8, x, y, z)

\* x ^ y ^ z on u32
Parity32(x, y, z) == Parity8(XOR8, x, y, z)

\* a ^ b ^ c ^ d on u32
Xor32x4(a, b, c, d) == Xor8x4(XOR8, a, b, c, d)

\* the low and the high 16 bits of a word
lo16(a) == a[1] + 256 * a[2]

hi16(a) == a[3] + 256 * a[4]

\* the word of a sum kept as the sum of the low halves and the sum of the
\* high halves: the carry of the low half moves up, the carry of the high
\* half is dropped
wrap_halves(lo, hi) ==
    <<lo % 256, (lo \div 256) % 256,
      (hi + (lo \div 65536)) % 256, ((hi + (lo \div 65536)) \div 256) % 256>>

\* a.wrapping_add(b)
Add32(a, b) == wrap_halves(lo16(a) + lo16(b), hi16(a) + hi16(b))

\* a.wrapping_add(b).wrapping_add(c).wrapping_add(d)
Add32x4(a, b, c, d) ==
    wrap_halves(lo16(a) + lo16(b) + lo16(c) + lo16(d),
                hi16(a) + hi16(b) + hi16(c) + hi16(d))

\* the same with five terms
Add32x5(a, b, c, d, e) ==
    wrap_halves(lo16(a) + lo16(b) + lo16(c) + lo16(d) + lo16(e),
                hi16(a) + hi16(b) + hi16(c) + hi16(d) + hi16(e))

\* 2^n for n = 0 .. 8, at index n + 1
POW2 == <<1, 2, 4, 8, 16, 32, 64, 128, 256>>

\* four bytes out of five: byte i takes the bits of x[i] from p upwards and,
\* above them, the bits of x[i + 1] below p; p * m = 256
shift_bytes(x, p, m) ==
    SubSeq([i \in 1..4 |-> (x[i] \div p) + ((x[i + 1] % p) * m)], 1, 4)

\* a.rotate_right(n), 0 < n < 32: the bytes from n \div 8 on, going round,
\* shifted by n % 8 bits
RotR32(a, n) ==
    shift_bytes(SubSeq(a \o a, (n \div 8) + 1, (n \div 8) + 5),
                POW2[(n % 8) + 1], POW2[9 - (n % 8)])

\* a.rotate_left(n), 0 < n < 32
RotL32(a, n) == RotR32(a, 32 - n)

\* a >> n, 0 < n < 32: as the rotation, with zeros coming in from the top
Shr32(a, n) ==
    shift_bytes(SubSeq(a \o <<0, 0, 0, 0>>, (n \div 8) + 1, (n \div 8) + 5),
                POW2[(n % 8) + 1], POW2[9 - (n % 8)])

\* u32::from_be_bytes
from_be_bytes(bytes) == <<bytes[4], bytes[3], bytes[2], bytes[1]>>

\* u32::to_be_bytes
to_be_bytes(v) == <<v[4], v[3], v[2], v[1]>>

\* the sixteen big-endian words of a 64-byte block
block_words(block) == [j \in 1..16 |-> from_be_bytes(Slice(block, 4 * (j - 1), 4 * j))]

\* the bytes of a sequence of words, each big-endian
RECURSIVE words_bytes(_)
words_bytes(ws) ==
    IF ws = <<>> THEN <<>> ELSE to_be_bytes(Head(ws)) \o words_bytes(Tail(ws))

\* word by word, h[i].wrapping_add(r[i])
add_words(h, r) == SubSeq([i \in 1..Len(h) |-> Add32(h[i], r[i])], 1, Len(h))

\* Merkle-Damgard padding with a 64-bit big-endian bit count: 0x80, zeros up
\* to 56 modulo 64, the length in bits (here below 2^24 bits)
md_pad(message) ==
    message \o <<128>> \o Zeros((119 - (Len(message) % 64)) % 64)
            \o <<0, 0, 0, 0, 0, (8 * Len(message)) \div 65536,
                 ((8 * Len(message)) \div 256) % 256, (8 * Len(message)) % 256>>

\* a working state of a compression: the registers, and the sixteen schedule
\* words the coming round looks back on
CompressState == Seq(Word32) \X Seq(Word32)

-----------------------------------------------------------------------------
(* SHA-1 (crate sha1; FIPS 180-4 section 6.1)                              *)

\* the initial hash value
SHA1_H0 ==
    <<
       <<1, 35, 69, 103>>, <<137, 171, 205, 239>>, <<254, 220, 186, 152>>,
       <<118, 84, 50, 16>>, <<240, 225, 210, 195>> >>

\* the round constants K_t, one per twenty rounds
SHA1_K ==
    <<
       <<153, 121, 130, 90>>, <<161, 235, 217, 110>>,
       <<220, 188, 27, 143>>, <<214, 193, 98, 202>> >>

\* f_t
sha1_f(t, b, c, d) ==
    IF t < 20 THEN Ch32(b, c, d)
    ELSE IF t < 40 \/ t >= 60 THEN Parity32(b, c, d)
    ELSE Maj32(b, c, d)

\* W_t: the block's word for t < 16 and
\* ROTL1(W_{t-3} ^ W_{t-8} ^ W_{t-14} ^ W_{t-16}) after
sha1_w(w, t) ==
    IF t < 16 THEN w[1] ELSE RotL32(Xor32x4(w[14], w[9], w[3], w[1]), 1)

\* the registers r and the schedule window w after round t with word wt
sha1_step(r, w, t, wt) ==
    << << Add32x5(RotL32(r[1], 5), sha1_f(t, r[2], r[3], r[4]), r[5],
                  SHA1_K[(t \div 20) + 1], wt),
          r[1], RotL32(r[2], 30), r[3], r[4] >>,
       Tail(w) \o <<wt>> >>

\* round t
sha1_round(s, t) == sha1_step(s[1], s[2], t, sha1_w(s[2], t))

RECURSIVE sha1_rounds(_, _, _)
\* rounds lo .. hi - 1 in order; the state after the first half is computed
\* before the second half starts
sha1_rounds(s, lo, hi) ==
    IF hi = lo + 1 THEN sha1_round(s, lo)
    ELSE LET rest == [s1 \in CompressState |->
                         sha1_rounds(s1, lo + ((hi - lo) \div 2), hi)]
         IN  rest[sha1_rounds(s, lo, lo + ((hi - lo) \div 2))]

\* the compression of one block into the chaining value h
sha1_compress(h, block) ==
    add_words(h, sha1_rounds(<<h, block_words(block)>>, 0, 80)[1])

-----------------------------------------------------------------------------
(* SHA-256 (crate sha2; FIPS 180-4 section 6.2)                            *)

\* the initial hash value
SHA256_H0 ==
    <<
       <<103, 230, 9, 106>>, <<133, 174, 103, 187>>, <<114, 243, 110, 60>>, <<58, 245, 79, 165>>,
       <<127, 82, 14, 81>>, <<140, 104, 5, 155>>, <<171, 217, 131, 31>>, <<25, 205, 224, 91>> >>

\* the round constants K_t
SHA256_K ==
    <<
       <<152, 47, 138, 66>>, <<145, 68, 55, 113>>, <<207, 251, 192, 181>>, <<165, 219, 181, 233>>,
       <<91, 194, 86, 57>>, <<241, 17, 241, 89>>, <<164, 130, 63, 146>>, <<213, 94, 28, 171>>,
       <<152, 170, 7, 216>>, <<1, 91, 131, 18>>, <<190, 133, 49, 36>>, <<195, 125, 12, 85>>,
       <<116, 93, 190, 114>>, <<254, 177, 222, 128>>, <<167, 6, 220, 155>>, <<116, 241, 155, 193>>,
       <<193, 105, 155, 228>>, <<134, 71, 190, 239>>, <<198, 157, 193, 15>>, <<204, 161, 12, 36>>,
       <<111, 44, 233, 45>>, <<170, 132, 116, 74>>, <<220, 169, 176, 92>>, <<218, 136, 249, 118>>,
       <<82, 81, 62, 152>>, <<109, 198, 49, 168>>, <<200, 39, 3, 176>>, <<199, 127, 89, 191>>,
       <<243, 11, 224, 198>>, <<71, 145, 167, 213>>, <<81, 99, 202, 6>>, <<103, 41, 41, 20>>,
       <<133, 10, 183, 39>>, <<56, 33, 27, 46>>, <<252, 109, 44, 77>>, <<19, 13, 56, 83>>,
       <<84, 115, 10, 101>>, <<187, 10, 106, 118>>, <<46, 201, 194, 129>>, <<133, 44, 114, 146>>,
       <<161, 232, 191, 162>>, <<75, 102, 26, 168>>, <<112, 139, 75, 194>>, <<163, 81, 108, 199>>,
       <<25, 232, 146, 209>>, <<36, 6, 153, 214>>, <<133, 53, 14, 244>>, <<112, 160, 106, 16>>,
       <<22, 193, 164, 25>>, <<8, 108, 55, 30>>, <<76, 119, 72, 39>>, <<181, 188, 176, 52>>,
       <<179, 12, 28, 57>>, <<74, 170, 216, 78>>, <<79, 202, 156, 91>>, <<243, 111, 46, 104>>,
       <<238, 130, 143, 116>>, <<111, 99, 165, 120>>, <<20, 120, 200, 132>>, <<8, 2, 199, 140>>,
       <<250, 255, 190, 144>>, <<235, 108, 80, 164>>, <<247, 163, 249, 190>>, <<242, 120, 113, 198>> >>

sha256_Sigma0(x) == Parity32(RotR32(x, 2), RotR32(x, 13), RotR32(x, 22))

sha256_Sigma1(x) == Parity32(RotR32(x, 6), RotR32(x, 11), RotR32(x, 25))

sha256_sigma0(x) == Parity32(RotR32(x, 7), RotR32(x, 18), Shr32(x, 3))

sha256_sigma1(x) == Parity32(RotR32(x, 17), RotR32(x, 19), Shr32(x, 10))

\* W_t: the block's word for t < 16 and
\* sigma1(W_{t-2}) + W_{t-7} + sigma0(W_{t-15}) + W_{t-16} after
sha256_w(w, t) ==
    IF t < 16 THEN w[1]
    ELSE Add32x4(sha256_sigma1(w[15]), w[10], sha256_sigma0(w[2]), w[1])

\* T1 = h + Sigma1(e) + Ch(e, f, g) + K_t + W_t
sha256_t1(r, t, wt) ==
    Add32x5(r[8], sha256_Sigma1(r[5]), Ch32(r[5], r[6], r[7]), SHA256_K[t + 1], wt)

\* T2 = Sigma0(a) + Maj(a, b, c)
sha256_t2(r) == Add32(sha256_Sigma0(r[1]), Maj32(r[1], r[2], r[3]))

\* the registers r and the schedule window w after a round with W_t, T1, T2
sha256_step(r, w, wt, t1, t2) ==
    << <<Add32(t1, t2), r[1], r[2], r[3], Add32(r[4], t1), r[5], r[6], r[7]>>,
       Tail(w) \o <<wt>> >>

\* round t on registers r and window w, W_t given
sha256_round_w(r, w, t, wt) ==
    sha256_step(r, w, wt, sha256_t1(r, t, wt), sha256_t2(r))

\* round t
sha256_round(s, t) == sha256_round_w(s[1], s[2], t, sha256_w(s[2], t))

RECURSIVE sha256_rounds(_, _, _)
\* rounds lo .. hi - 1 in order; the state after the first half is computed
\* before the second half starts
sha256_rounds(s, lo, hi) ==
    IF hi = lo + 1 THEN sha256_round(s, lo)
    ELSE LET rest == [s1 \in CompressState |->
                         sha256_rounds(s1, lo + ((hi - lo) \div 2), hi)]
         IN  rest[sha256_rounds(s, lo, lo + ((hi - lo) \div 2))]

\* the compression of one block into the chaining value h
sha256_compress(h, block) ==
    add_words(h, sha256_rounds(<<h, block_words(block)>>, 0, 64)[1])

-----------------------------------------------------------------------------
(* Digest and SimpleHmac (crates digest, hmac; RFC 2104)                   *)

\* <D as BlockSizeUser>::block_size()
block_size(D) == 64

compress(D, h, block) ==
    IF D = "Sha1" THEN sha1_compress(h, block) ELSE sha256_compress(h, block)

RECURSIVE digest_blocks(_, _, _, _, _)
\* the blocks lo .. hi - 1 of the padded message, in order, into the chaining
\* value h; the value after each part is computed before the next part starts
digest_blocks(D, h, padded, lo, hi) ==
    IF hi <= lo THEN h
    ELSE IF hi = lo + 1
    THEN compress(D, h, Slice(padded, 64 * lo, 64 * (lo + 1)))
    ELSE LET q     == (hi - lo + 3) \div 4
             m1    == lo + q
             m2    == IF lo + 2 * q < hi THEN lo + 2 * q ELSE hi
             m3    == IF lo + 3 * q < hi THEN lo + 3 * q ELSE hi
             part2 == [h1 \in Seq(Word32) |-> digest_blocks(D, h1, padded, m1, m2)]
             part3 == [h2 \in Seq(Word32) |-> digest_blocks(D, h2, padded, m2, m3)]
             part4 == [h3 \in Seq(Word32) |-> digest_blocks(D, h3, padded, m3, hi)]
         IN  part4[part3[part2[digest_blocks(D, h, padded, lo, m1)]]]

\* the digest of a message already padded
digest_padded(D, padded) ==
    words_bytes(digest_blocks(D, IF D = "Sha1" THEN SHA1_H0 ELSE SHA256_H0,
                              padded, 0, Len(padded) \div 64))

\* D::digest(message)
digest(D, message) == digest_padded(D, md_pad(message))

\* a key block: the key padded with zeros to n bytes
pad_key(k, n) == k \o Zeros(n - Len(k))

\* the key block of SimpleHmac::new_from_slice: a key longer than a block is
\* hashed first, then the key is padded with zeros to the block size
hmac_key_block(D, key) ==
    pad_key(IF Len(key) > block_size(D) THEN digest(D, key) ELSE key, block_size(D))

\* every byte of the key block XORed with pad
hmac_pad(block, pad) == [i \in 1..Len(block) |-> Xor8(block[i], pad)]

\* hmac.finalize() after Update::update(&mut hmac, data), k the key block:
\* H((K ^ opad) || H((K ^ ipad) || data)), ipad = 0x36, opad = 0x5c
hmac_finalize(D, k, data) ==
    digest(D, hmac_pad(k, 92) \o digest(D, hmac_pad(k, 54) \o data))

\* SimpleHmac::new_from_slice(key), Update::update(&mut hmac, data),
\* hmac.finalize().into_bytes()
Hmac(D, key, data) == hmac_finalize(D, hmac_key_block(D, key), data)

-----------------------------------------------------------------------------
(* MessageIntegrityKey                                                     *)

\* MessageIntegrityKey::new_short_term: the bytes of the password
new_short_term(password) == password

\* SimpleHmac::new_from_slice: HMAC takes a key of any length
new_from_slice_ok(key) == TRUE

-----------------------------------------------------------------------------
(* MessageBuilder (crate::builder)                                         *)

\* the header MessageBuilder::new writes: Request/Binding, a zero length,
\* the magic cookie, the transaction id
MessageBuilder_new ==
    <<0, 1>> \o <<0, 0>> \o <<33, 18, 164, 66>> \o <<0, 0, 0, 0, 0, 0, 0, 0, 0, 0, 0, 123>>

\* MessageBuilder::set_len / the length field as with_msg_len overrides it:
\* bytes 2..3 of the header, network order
set_len(buf, len) == [buf EXCEPT ![3] = len \div 256, ![4] = len % 256]

\* the declared length of a message
msg_len(buf) == read_u16_NE(Slice(buf, 2, 4))

\* add_attr_with before the call of Attribute::encode: type and length
write_attr_header(buf, typ, enc_len) == buf \o put_u16(typ) \o put_u16(enc_len)

\* add_attr_with after the call of Attribute::encode: `?` on the result,
\* then the padding bytes
finish_attr(r, enc_len) ==
    IF r.res = "Ok" THEN r.buffer \o Zeros(padding_usize(enc_len)) ELSE r.buffer

-----------------------------------------------------------------------------
(* Fingerprint: Attribute::encode (fingerprint.rs 85-98)                   *)

Fingerprint_encode_len == 4

Fingerprint_encode(buf) ==
    LET data == Slice(buf, 0, Len(buf) - 4)
        crc  == Xor32(crc32(data), FINGERPRINT_XOR)
    IN  [res |-> "Ok", buffer |-> buf \o put_u32(crc), data_end |-> Len(data)]

-----------------------------------------------------------------------------
(* MessageIntegrity, MessageIntegritySha256: encode (integrity.rs 59-159)  *)

MessageIntegrity_encode_len(D) == output_size(D)

\* a plausible slip: the length field is written before the range check,
\* truncated to 16 bits
message_integrity_encode_Truncating(D, key, buf) ==
    LET message_length_with_integrity_attribute ==
            (Len(buf) + output_size(D)) - STUN_HEADER_LENGTH
        patched == set_len(buf, message_length_with_integrity_attribute % (U16_MAX + 1))
    IN  IF message_length_with_integrity_attribute > U16_MAX
        THEN [res |-> "TryFromIntError", buffer |-> patched, data_end |-> 0]
        ELSE LET data == Slice(patched, 0, Len(patched) - ATTRIBUTE_HEADER_LEN)
             IN  [res |-> "Ok", buffer |-> patched \o Hmac(D, key, data),
                  data_end |-> Len(data)]

\* a plausible slip: the length field is left as it was
message_integrity_encode_NoSetLen(D, key, buf) ==
    LET message_length_with_integrity_attribute ==
            (Len(buf) + output_size(D)) - STUN_HEADER_LENGTH
    IN  IF message_length_with_integrity_attribute > U16_MAX
        THEN [res |-> "TryFromIntError", buffer |-> buf, data_end |-> 0]
        ELSE LET data == Slice(buf, 0, Len(buf) - ATTRIBUTE_HEADER_LEN)
             IN  [res |-> "Ok", buffer |-> buf \o Hmac(D, key, data),
                  data_end |-> Len(data)]

message_integrity_encode(D, key, buf) ==
    LET message_length_with_integrity_attribute ==
            (Len(buf) + output_size(D)) - STUN_HEADER_LENGTH
    IN  IF message_length_with_integrity_attribute > U16_MAX
        THEN \* try_into()? fails before set_len
             [res |-> "TryFromIntError", buffer |-> buf, data_end |-> 0]
        ELSE LET patched == set_len(buf, message_length_with_integrity_attribute)
                 data    == Slice(patched, 0, Len(patched) - ATTRIBUTE_HEADER_LEN)
             IN  [res |-> "Ok", buffer |-> patched \o Hmac(D, key, data),
                  data_end |-> Len(data)]

\* MessageIntegrity::encode / MessageIntegritySha256::encode
MessageIntegrity_encode(D, key, buf) ==
    IF ~new_from_slice_ok(key)
    THEN [res |-> "InvalidData: invalid key length", buffer |-> buf, data_end |-> 0]
    ELSE message_integrity_encode(D, key, buf)

-----------------------------------------------------------------------------
(* Message and AttrSpan (crate::parse)                                     *)
(*                                                                         *)
(* An AttrSpan records where one attribute lies in the buffer.  `begin` is *)
(* the offset of the first byte of the VALUE (the attribute's 4-byte       *)
(* header ends there): get_value is buf[begin..end], and                   *)
(* message_integrity_decode reaches "all bytes before the integrity        *)
(* attribute" as buf[..begin - ATTRIBUTE_HEADER_LEN], the range its        *)
(* selftests need in order to verify what message_integrity_encode hashed. *)

\* AttrSpan::get_value
get_value(attr, buf) == Slice(buf, attr.begin, attr.end)

RECURSIVE parse_attrs(_, _, _)
\* the scan of Message::parse over the attributes, from offset pos
parse_attrs(buf, pos, acc) ==
    IF pos >= Len(buf) THEN [ok |-> TRUE, attributes |-> acc]
    ELSE IF pos + ATTRIBUTE_HEADER_LEN > Len(buf) THEN [ok |-> FALSE, attributes |-> acc]
    ELSE LET typ         == read_u16_NE(Slice(buf, pos, pos + 2))
             attr_len    == read_u16_NE(Slice(buf, pos + 2, pos + 4))
             value_begin == pos + ATTRIBUTE_HEADER_LEN
             value_end   == value_begin + attr_len
             padding_end == value_end + padding_usize(attr_len)
         IN  IF padding_end > Len(buf) THEN [ok |-> FALSE, attributes |-> acc]
             ELSE parse_attrs(buf, padding_end,
                      Append(acc, [typ |-> typ, begin |-> value_begin,
                                   end |-> value_end, padding_end |-> padding_end]))

\* Message::parse
Message_parse(bytes) ==
    IF Len(bytes) < STUN_HEADER_LENGTH
    THEN [ok |-> FALSE, attributes |-> <<>>]
    ELSE parse_attrs(bytes, STUN_HEADER_LENGTH, <<>>)

\* Message::with_msg_len(len, f), entry: the declared length is set to len
\* for the time f runs
with_msg_len_enter(buf, len) == set_len(buf, len)

\* Message::with_msg_len(len, f), exit: whatever f returned, the declared
\* length is set back to what it was before
with_msg_len_exit(r, old) == [r EXCEPT !.buffer = set_len(r.buffer, old)]

-----------------------------------------------------------------------------
(* Fingerprint: Attribute::decode (fingerprint.rs 65-83)                   *)
(* A decode returns: res, the message buffer it leaves, whether the CRC or  *)
(* HMAC was computed (hashed), the end of the range it covered (data_end), *)
(* the declared length the hashed bytes carried (len_seen), and the        *)
(* computed and the stored value.                                          *)

\* a plausible slip: the length of the value is not checked, the read of
\* the u32 meets the end of a short value
Fingerprint_decode_NoLenCheck(buf, attr) ==
    LET value == get_value(attr, buf)
        data  == Slice(buf, 0, attr.begin)
    IN  IF Len(value) < 4
        THEN [res |-> "Io: UnexpectedEof",
              buffer |-> buf, hashed |-> FALSE, data_end |-> 0, len_seen |-> 0,
              computed |-> <<>>, stored |-> value]
        ELSE LET attr_value == read_u32_NE(value)
                 crc        == Xor32(crc32(data), FINGERPRINT_XOR)
             IN  [res |-> IF crc # attr_value
                          THEN "InvalidData: failed to verify message fingerprint"
                          ELSE "Ok",
                  buffer |-> buf, hashed |-> TRUE, data_end |-> Len(data),
                  len_seen |-> msg_len(buf),
                  computed |-> crc, stored |-> attr_value]

Fingerprint_decode(buf, attr) ==
    LET value == get_value(attr, buf)
    IN  IF Len(value) # 4
        THEN [res |-> "InvalidData: fingerprint value must be 4 bytes",
              buffer |-> buf, hashed |-> FALSE, data_end |-> 0, len_seen |-> 0,
              computed |-> <<>>, stored |-> value]
        ELSE LET attr_value == read_u32_NE(value)
                 data       == Slice(buf, 0, attr.begin)
                 crc        == Xor32(crc32(data), FINGERPRINT_XOR)
             IN  [res |-> IF crc # attr_value
                          THEN "InvalidData: failed to verify message fingerprint"
                          ELSE "Ok",
                  buffer |-> buf, hashed |-> TRUE, data_end |-> Len(data),
                  len_seen |-> msg_len(buf),
                  computed |-> crc, stored |-> attr_value]

-----------------------------------------------------------------------------
(* MessageIntegrity, MessageIntegritySha256: decode (integrity.rs 50-135)  *)

\* the closure message_integrity_decode hands to with_msg_len, run on the
\* message as overridden
message_integrity_verify(D, key, attr, buf) ==
    LET received_digest   == get_value(attr, buf)
        message           == Slice(buf, 0, attr.begin - ATTRIBUTE_HEADER_LEN)
        calculated_digest == Hmac(D, key, message)
    IN  [res |-> IF calculated_digest # received_digest
                 THEN "InvalidData: failed to verify message integrity"
                 ELSE "Ok",
         buffer |-> buf, hashed |-> TRUE, data_end |-> Len(message),
         len_seen |-> msg_len(buf),
         computed |-> calculated_digest, stored |-> received_digest]

\* a plausible slip: the override is written and never undone
message_integrity_decode_Leaking(D, key, buf, attr) ==
    IF attr.padding_end - STUN_HEADER_LENGTH > U16_MAX
    THEN [res |-> "TryFromIntError", buffer |-> buf, hashed |-> FALSE,
          data_end |-> 0, len_seen |-> 0, computed |-> <<>>, stored |-> <<>>]
    ELSE message_integrity_verify(D, key, attr,
             with_msg_len_enter(buf, attr.padding_end - STUN_HEADER_LENGTH))

\* a plausible slip: the range ends at attr.begin, the attribute's own
\* header is hashed too
message_integrity_decode_OwnHeader(D, key, buf, attr) ==
    IF attr.padding_end - STUN_HEADER_LENGTH > U16_MAX
    THEN [res |-> "TryFromIntError", buffer |-> buf, hashed |-> FALSE,
          data_end |-> 0, len_seen |-> 0, computed |-> <<>>, stored |-> <<>>]
    ELSE LET b == with_msg_len_enter(buf, attr.padding_end - STUN_HEADER_LENGTH)
             message == Slice(b, 0, attr.begin)
             calculated_digest == Hmac(D, key, message)
         IN  with_msg_len_exit(
                 [res |-> IF calculated_digest # get_value(attr, b)
                          THEN "InvalidData: failed to verify message integrity"
                          ELSE "Ok",
                  buffer |-> b, hashed |-> TRUE, data_end |-> Len(message),
                  len_seen |-> msg_len(b),
                  computed |-> calculated_digest, stored |-> get_value(attr, b)],
                 msg_len(buf))

message_integrity_decode(D, key, buf, attr) ==
    IF attr.padding_end - STUN_HEADER_LENGTH > U16_MAX
    THEN \* u16::try_from(..)? fails before with_msg_len is called
         [res |-> "TryFromIntError", buffer |-> buf, hashed |-> FALSE,
          data_end |-> 0, len_seen |-> 0, computed |-> <<>>, stored |-> <<>>]
    ELSE with_msg_len_exit(
             message_integrity_verify(D, key, attr,
                 with_msg_len_enter(buf, attr.padding_end - STUN_HEADER_LENGTH)),
             msg_len(buf))

\* MessageIntegrity::decode / MessageIntegritySha256::decode
MessageIntegrity_decode(D, key, buf, attr) ==
    IF ~new_from_slice_ok(key)
    THEN [res |-> "InvalidData: invalid key length", buffer |-> buf, hashed |-> FALSE,
          data_end |-> 0, len_seen |-> 0, computed |-> <<>>, stored |-> <<>>]
    ELSE message_integrity_decode(D, key, buf, attr)

-----------------------------------------------------------------------------
(* The codec at work: a builder appends attributes and finishes; the bytes *)
(* travel (and may be altered on the way); the receiver parses them and    *)
(* decodes attributes.                                                     *)

MaxAttrs == 2

\* passwords of short-term credentials: "abc", "w"
Passwords == {<<97, 98, 99>>, <<119>>}

\* values of the SOFTWARE attribute: "a", "ezk!"
SoftwareTexts == {<<97>>, <<101, 122, 107, 33>>}

\* value lengths an altered attribute header may carry
TamperLens == {2, 18, 28, 30}

NoKey == <<>>

\* no attribute has been decoded yet
Idle == [typ |-> 0]

Init ==
    /\ phase = "build"
    /\ buffer = MessageBuilder_new
    /\ added = <<>>
    /\ bres = "none"
    /\ wire = <<>>
    /\ sent = <<>>
    /\ msg = [buffer |-> <<>>, attributes |-> <<>>]
    /\ dres = Idle
    /\ crcIn = <<>>
    /\ crcOut = U32(0)

\* MessageBuilder::add_attr_with(attr, ctx): header, Attribute::encode, padding
add_attr_with(typ, D, key, enc_len, r) ==
    /\ buffer' = finish_attr(r, enc_len)
    /\ added' = Append(added, [typ |-> typ, D |-> D, key |-> key, hdr |-> Len(buffer),
                               res |-> r.res, data_end |-> r.data_end])
    /\ bres' = r.res
    /\ UNCHANGED <<phase, wire, sent, msg, dres, crcIn, crcOut>>

\* add_attr(&Software::new(text))
AddSoftware ==
    /\ phase = "build"
    /\ Len(added) < MaxAttrs
    /\ \E text \in SoftwareTexts :
          LET header == write_attr_header(buffer, TYPE_SOFTWARE, Len(text))
          IN  add_attr_with(TYPE_SOFTWARE, "none", NoKey, Len(text),
                  [res |-> "Ok", buffer |-> header \o text, data_end |-> 0])

\* add_attr_with(&MessageIntegrity / &MessageIntegritySha256, &key)
AddIntegrity ==
    /\ phase = "build"
    /\ Len(added) < MaxAttrs
    /\ \E D \in Digests, password \in Passwords :
          LET key    == new_short_term(password)
              header == write_attr_header(buffer, IntegrityType(D),
                                          MessageIntegrity_encode_len(D))
          IN  add_attr_with(IntegrityType(D), D, key, MessageIntegrity_encode_len(D),
                  MessageIntegrity_encode(D, key, header))

\* add_attr(&Fingerprint)
AddFingerprint ==
    /\ phase = "build"
    /\ Len(added) < MaxAttrs
    /\ LET header == write_attr_header(buffer, TYPE_FINGERPRINT, Fingerprint_encode_len)
       IN  add_attr_with(TYPE_FINGERPRINT, "none", NoKey, Fingerprint_encode_len,
               Fingerprint_encode(header))

\* MessageBuilder::finish: the final length is written, the bytes are handed out
\* (try_into().unwrap() panics on a longer buffer: no message comes out)
Finish ==
    /\ phase = "build"
    /\ Len(buffer) - STUN_HEADER_LENGTH <= U16_MAX
    /\ phase' = "wire"
    /\ sent' = set_len(buffer, Len(buffer) - STUN_HEADER_LENGTH)
    /\ wire' = sent'
    /\ bres' = "Ok"
    /\ UNCHANGED <<buffer, added, msg, dres, crcIn, crcOut>>

\* the attribute spans of the bytes as sent
SentSpans == Message_parse(sent).attributes

\* on the way: the lowest bit of the first value byte of one attribute flips
TamperValue ==
    /\ phase = "wire"
    /\ wire = sent
    /\ \E i \in 1..Len(SentSpans) :
          /\ SentSpans[i].end > SentSpans[i].begin
          /\ wire' = [wire EXCEPT ![SentSpans[i].begin + 1] = Xor8(@, 1)]
    /\ UNCHANGED <<phase, buffer, added, bres, sent, msg, dres, crcIn, crcOut>>

\* on the way: the length field of one attribute header is rewritten
TamperLength ==
    /\ phase = "wire"
    /\ wire = sent
    /\ \E i \in 1..Len(SentSpans), n \in TamperLens :
          /\ n # SentSpans[i].end - SentSpans[i].begin
          /\ wire' = [wire EXCEPT ![SentSpans[i].begin - 1] = n \div 256,
                                  ![SentSpans[i].begin] = n % 256]
    /\ UNCHANGED <<phase, buffer, added, bres, sent, msg, dres, crcIn, crcOut>>

\* Message::parse(bytes)
Parse ==
    /\ phase = "wire"
    /\ LET r == Message_parse(wire)
       IN  IF r.ok
           THEN /\ phase' = "parsed"
                /\ msg' = [buffer |-> wire, attributes |-> r.attributes]
           ELSE /\ phase' = "rejected"
                /\ UNCHANGED msg
    /\ UNCHANGED <<buffer, added, bres, wire, sent, dres, crcIn, crcOut>>

\* what a decode leaves behind: the message, and the record of the call
decoded(typ, D, key, i, r) ==
    /\ msg' = [msg EXCEPT !.buffer = r.buffer]
    /\ dres' = [typ |-> typ, D |-> D, key |-> key, idx |-> i, span |-> msg.attributes[i],
                res |-> r.res, hashed |-> r.hashed, data_end |-> r.data_end,
                len_seen |-> r.len_seen, computed |-> r.computed, stored |-> r.stored,
                len_before |-> msg_len(msg.buffer)]
    /\ UNCHANGED <<phase, buffer, added, bres, wire, sent, crcIn, crcOut>>

\* Fingerprint::decode on a FINGERPRINT attribute of the message
DecodeFingerprint ==
    /\ phase = "parsed"
    /\ \E i \in 1..Len(msg.attributes) :
          /\ msg.attributes[i].typ = TYPE_FINGERPRINT
          /\ decoded(TYPE_FINGERPRINT, "none", NoKey, i,
                     Fingerprint_decode(msg.buffer, msg.attributes[i]))

\* MessageIntegrity::decode / MessageIntegritySha256::decode on an attribute
\* of its type, with a key
DecodeIntegrity ==
    /\ phase = "parsed"
    /\ \E i \in 1..Len(msg.attributes), D \in Digests, password \in Passwords :
          /\ msg.attributes[i].typ = IntegrityType(D)
          /\ decoded(IntegrityType(D), D, new_short_term(password), i,
                     MessageIntegrity_decode(D, new_short_term(password),
                                             msg.buffer, msg.attributes[i]))

Next ==
    \/ AddSoftware
    \/ AddIntegrity
    \/ AddFingerprint
    \/ Finish
    \/ TamperValue
    \/ TamperLength
    \/ Parse
    \/ DecodeFingerprint
    \/ DecodeIntegrity

Spec == Init /\ [][Next]_vars

-----------------------------------------------------------------------------
(* The codec on messages near the 16-bit limit of the length field: a      *)
(* builder that already holds one long DATA attribute, and long datagrams  *)
(* that arrive from the network.                                           *)

\* value lengths of the long DATA attribute: after 65504 bytes a SHA-1
\* attribute is the last that fits (patched length 65532), after the others,
\* and for SHA-256 after every one of them, the patched length passes 65535
BigLens == {65504, 65508, 65512, 65516, 65520, 65524, 65528, 65532}

\* header and one DATA attribute of n zero bytes, as add_attr leaves them
BigBuilder(n) ==
    write_attr_header(MessageBuilder_new, TYPE_DATA, n) \o Zeros(n)
        \o Zeros(padding_usize(n))

\* a datagram: the same, followed by an integrity attribute with a zero
\* digest; the length field holds the low 16 bits of the attribute bytes
BigDatagram(n, D) ==
    LET body == write_attr_header(BigBuilder(n), IntegrityType(D), output_size(D))
                    \o Zeros(output_size(D))
    IN  set_len(body, (Len(body) - STUN_HEADER_LENGTH) % (U16_MAX + 1))

InitBig ==
    /\ bres = "none"
    /\ sent = <<>>
    /\ msg = [buffer |-> <<>>, attributes |-> <<>>]
    /\ dres = Idle
    /\ crcIn = <<>>
    /\ crcOut = U32(0)
    /\ \E n \in BigLens :
          \/ /\ phase = "build"
             /\ buffer = BigBuilder(n)
             /\ added = <<[typ |-> TYPE_DATA, D |-> "none", key |-> NoKey,
                           hdr |-> STUN_HEADER_LENGTH, res |-> "Ok", data_end |-> 0]>>
             /\ wire = <<>>
          \/ /\ phase = "wire"
             /\ buffer = MessageBuilder_new
             /\ added = <<>>
             /\ \E D \in Digests : wire = BigDatagram(n, D)

NextBig ==
    \/ AddIntegrity
    \/ Parse
    \/ DecodeIntegrity

SpecBig == InitBig /\ [][NextBig]_vars

-----------------------------------------------------------------------------
(* Reference CRC-32, bit by bit, no table (ISO 3309 / zlib)                *)

RECURSIVE RefCrcBits(_, _)
\* k shifts of the register, each computed before the next
RefCrcBits(c, k) ==
    IF k = 0 THEN c
    ELSE LET rest == [c1 \in Word32 |-> RefCrcBits(c1, k - 1)]
         IN  rest[IF c[1] % 2 = 1 THEN Xor32(Shr1(c), CRC32_POLY) ELSE Shr1(c)]

RECURSIVE RefCrcBytes(_, _, _)
\* the register after byte i is computed before byte i + 1 is taken up
RefCrcBytes(c, buf, i) ==
    IF i > Len(buf) THEN c
    ELSE LET rest == [c1 \in Word32 |-> RefCrcBytes(c1, buf, i + 1)]
         IN  rest[RefCrcBits(<<Xor8(c[1], buf[i]), c[2], c[3], c[4]>>, 8)]

RefCrc32(buf) == Xor32(RefCrcBytes(U32_ONES, buf, 1), U32_ONES)

-----------------------------------------------------------------------------
(* Driver of the CRC engine: crc32 applied to byte strings                 *)

MaxCrcLen == 3

CrcBytes == {0, 1, 49, 128, 255}

\* "123456789"
CheckString == <<49, 50, 51, 52, 53, 54, 55, 56, 57>>

\* 0xCBF43926
CheckValue == <<38, 57, 244, 203>>

InitCrc ==
    /\ phase = "crc"
    /\ buffer = <<>>
    /\ added = <<>>
    /\ bres = "none"
    /\ wire = <<>>
    /\ sent = <<>>
    /\ msg = [buffer |-> <<>>, attributes |-> <<>>]
    /\ dres = Idle
    /\ crcIn = <<>>
    /\ crcOut = crc32(<<>>)

CrcAppend ==
    /\ phase = "crc"
    /\ Len(crcIn) < MaxCrcLen
    /\ \E b \in CrcBytes :
          /\ crcIn' = Append(crcIn, b)
          /\ crcOut' = crc32(crcIn')
    /\ UNCHANGED <<phase, buffer, added, bres, wire, sent, msg, dres>>

CrcCheckString ==
    /\ phase = "crc"
    /\ crcIn # CheckString
    /\ crcIn' = CheckString
    /\ crcOut' = crc32(CheckString)
    /\ UNCHANGED <<phase, buffer, added, bres, wire, sent, msg, dres>>

NextCrc == CrcAppend \/ CrcCheckString

SpecCrc == InitCrc /\ [][NextCrc]_vars

\* C6: crc32 is the canonical reflected CRC-32 (polynomial 0xEDB88320,
\* initial and final XOR 0xFFFFFFFF): on every input it agrees with the
\* bit-by-bit reference, and crc32("123456789") = 0xCBF43926.
C6_CrcCanonical ==
    /\ crcOut = RefCrc32(crcIn)
    /\ (crcIn = CheckString => crcOut = CheckValue)

\* the check string has been run through crc32
C6_Witness == crcIn = CheckString /\ crcOut = CheckValue

-----------------------------------------------------------------------------
(* Properties of the attribute codec                                       *)

IntegrityTypes == {TYPE_MESSAGE_INTEGRITY, TYPE_MESSAGE_INTEGRITY_SHA256}

InvalidDataErrors ==
    { "InvalidData: fingerprint value must be 4 bytes",
      "InvalidData: failed to verify message fingerprint",
      "InvalidData: failed to verify message integrity",
      "InvalidData: invalid key length" }

\* the parsed message is byte for byte what the builder finished
Untampered == phase = "parsed" /\ wire = sent

\* the last decode was Fingerprint::decode / an integrity decode
DecodedFingerprint == phase = "parsed" /\ dres.typ = TYPE_FINGERPRINT
DecodedIntegrity == phase = "parsed" /\ dres.typ \in IntegrityTypes

\* the bytes as sent and as received differ, and only inside the value of
\* the i-th attribute
OnlyValueCorrupted(i) ==
    /\ wire # sent
    /\ Len(wire) = Len(sent)
    /\ i \in 1..Len(SentSpans)
    /\ \A p \in 1..Len(sent) :
          wire[p] # sent[p] => (SentSpans[i].begin < p /\ p <= SentSpans[i].end)

\* the length of the value the decoded attribute stores
StoredLen == dres.span.end - dres.span.begin

\* C1: a message whose last appended attribute is FINGERPRINT, finished and
\* parsed unaltered: Fingerprint::decode succeeds, the value it computes is
\* the value Fingerprint::encode wrote.
C1_FingerprintRoundTrip ==
    (Untampered /\ DecodedFingerprint /\ dres.idx = Len(added))
        => (dres.res = "Ok" /\ dres.computed = dres.stored)

\* C2: an integrity attribute (either digest) appended with a key after any
\* attributes, the message finished and parsed unaltered: the decode of that
\* attribute with the same key succeeds.
C2_IntegrityRoundTrip ==
    (Untampered /\ DecodedIntegrity /\ dres.key = added[dres.idx].key)
        => dres.res = "Ok"

\* the selftest's shape: SOFTWARE, then SHA-256 integrity, verified
C2_Witness ==
    /\ Untampered /\ DecodedIntegrity
    /\ Len(added) = 2 /\ added[1].typ = TYPE_SOFTWARE
    /\ dres.idx = 2 /\ dres.D = "Sha256" /\ dres.key = added[2].key
    /\ dres.res = "Ok"

\* a message ends with SHA-1 MESSAGE-INTEGRITY, then FINGERPRINT
EndsWithIntegrityThenFingerprint ==
    /\ Len(added) >= 2
    /\ added[Len(added) - 1].typ = TYPE_MESSAGE_INTEGRITY
    /\ added[Len(added)].typ = TYPE_FINGERPRINT

\* C3: SHA-1 MESSAGE-INTEGRITY followed by FINGERPRINT: both verify after
\* parsing; with only the FINGERPRINT value corrupted the integrity decode
\* still succeeds, with only the MESSAGE-INTEGRITY value corrupted the
\* fingerprint decode still succeeds.
C3_CombinedIndependent ==
    (phase = "parsed" /\ EndsWithIntegrityThenFingerprint) =>
        LET n == Len(added)
            keyed == dres.typ = TYPE_MESSAGE_INTEGRITY /\ dres.idx = n - 1
                        /\ dres.key = added[n - 1].key
            fingerprint == dres.typ = TYPE_FINGERPRINT /\ dres.idx = n
        IN  /\ (wire = sent /\ fingerprint) => dres.res = "Ok"
            /\ (wire = sent /\ keyed) => dres.res = "Ok"
            /\ (OnlyValueCorrupted(n) /\ keyed) => dres.res = "Ok"
            /\ (OnlyValueCorrupted(n - 1) /\ fingerprint) => dres.res = "Ok"

\* the part of it that concerns the integrity attribute alone: it verifies,
\* and keeps verifying when only the FINGERPRINT value is corrupted
IntegrityUnaffectedByFingerprint ==
    (phase = "parsed" /\ EndsWithIntegrityThenFingerprint
        /\ dres.typ = TYPE_MESSAGE_INTEGRITY /\ dres.idx = Len(added) - 1
        /\ dres.key = added[Len(added) - 1].key
        /\ (wire = sent \/ OnlyValueCorrupted(Len(added))))
      => dres.res = "Ok"

\* C4 as claimed: a FINGERPRINT or MESSAGE-INTEGRITY attribute whose stored
\* value has not the fixed size is rejected with InvalidData before any CRC
\* or HMAC is computed.
C4_RejectedBeforeHash ==
    /\ (DecodedFingerprint /\ StoredLen # 4)
          => (dres.res \in InvalidDataErrors /\ ~dres.hashed)
    /\ (DecodedIntegrity /\ StoredLen # output_size(dres.D))
          => (dres.res \in InvalidDataErrors /\ ~dres.hashed)

\* C4 as the code has it: Fingerprint::decode rejects a value of another
\* length with InvalidData before any CRC; the integrity decodes have no
\* length check of their own: when the patched length fits 16 bits they
\* compute the HMAC and the comparison of the digest with the stored value
\* fails, which is InvalidData("failed to verify message integrity").
C4_LengthRejected ==
    /\ (DecodedFingerprint /\ StoredLen # 4)
          => /\ dres.res = "InvalidData: fingerprint value must be 4 bytes"
             /\ ~dres.hashed
    /\ (DecodedIntegrity /\ StoredLen # output_size(dres.D)
            /\ dres.span.padding_end - STUN_HEADER_LENGTH <= U16_MAX)
          => /\ dres.res = "InvalidData: failed to verify message integrity"
             /\ dres.hashed

\* an integrity attribute with a short value was decoded
C4_Witness ==
    /\ DecodedIntegrity /\ dres.D = "Sha1" /\ StoredLen = 18
    /\ dres.res = "InvalidData: failed to verify message integrity"

\* a fingerprint attribute with a short value was decoded
C4_WitnessFingerprint ==
    /\ DecodedFingerprint /\ StoredLen = 2
    /\ dres.res = "InvalidData: fingerprint value must be 4 bytes"

\* C5: after an integrity decode, on every exit path, the declared length of
\* the message is what it was before the call (and what was parsed); the
\* override to span.padding_end - 20 is seen by the hash computation only,
\* a later Fingerprint::decode sees the original length.
C5_LengthRestored ==
    (phase = "parsed" /\ dres.typ # 0) =>
        /\ msg_len(msg.buffer) = dres.len_before
        /\ msg_len(msg.buffer) = msg_len(wire)
        /\ msg.buffer = wire
        /\ (DecodedIntegrity /\ dres.hashed)
              => dres.len_seen = dres.span.padding_end - STUN_HEADER_LENGTH
        /\ (DecodedFingerprint /\ dres.hashed) => dres.len_seen = msg_len(wire)

\* an integrity decode ran under an override that differs from the declared
\* length, and failed
C5_Witness ==
    /\ DecodedIntegrity /\ dres.hashed
    /\ dres.len_seen # msg_len(wire)
    /\ dres.res = "InvalidData: failed to verify message integrity"
    /\ msg_len(msg.buffer) = msg_len(wire)

\* C7 as claimed, with span.begin read as the data model defines it (the
\* offset of the attribute's 4-byte header): the bytes fed to the HMAC are
\* the bytes before span.begin.
C7_RangeEndsAtSpanBegin ==
    (DecodedIntegrity /\ dres.hashed) => dres.data_end = dres.span.begin

\* C7 as the code has it: span.begin is the offset of the attribute's value,
\* the bytes fed to the HMAC end at span.begin - 4, the offset of the
\* attribute's header, which is where the range message_integrity_encode
\* hashed when it appended that attribute ends.
C7_HmacRange ==
    (DecodedIntegrity /\ dres.hashed) =>
        /\ dres.data_end = dres.span.begin - ATTRIBUTE_HEADER_LEN
        /\ wire = sent => /\ dres.data_end = added[dres.idx].hdr
                          /\ dres.data_end = added[dres.idx].data_end

\* an integrity attribute that follows another attribute was decoded
C7_Witness ==
    /\ Untampered /\ DecodedIntegrity /\ dres.hashed
    /\ dres.idx = 2 /\ dres.data_end = added[2].hdr
    /\ dres.data_end > STUN_HEADER_LENGTH

\* C8: Fingerprint::encode and Fingerprint::decode run the CRC over the same
\* range: both end at the offset of the FINGERPRINT attribute's header.
C8_SameCrcRange ==
    (Untampered /\ DecodedFingerprint /\ dres.hashed) =>
        /\ dres.data_end = added[dres.idx].data_end
        /\ dres.data_end = added[dres.idx].hdr

\* the step of add_attr_with for an integrity attribute
AddedIntegrity ==
    /\ phase = "build"
    /\ Len(added') = Len(added) + 1
    /\ added'[Len(added')].typ \in IntegrityTypes

\* C9: a successful message_integrity_encode grows the buffer (which already
\* ends with the attribute's 4-byte header) by the digest size, leaves every
\* earlier byte but the two of the header's length field as it was, and
\* leaves the length field at the buffer length minus the 20-byte header.
C9_EncodeEffect ==
    [][(AddedIntegrity /\ added'[Len(added')].res = "Ok") =>
          LET D == added'[Len(added')].D
          IN  /\ Len(buffer') = Len(buffer) + ATTRIBUTE_HEADER_LEN + output_size(D)
              /\ \A i \in 1..Len(buffer) : i \notin {3, 4} => buffer'[i] = buffer[i]
              /\ msg_len(buffer') = Len(buffer') - STUN_HEADER_LENGTH
              /\ msg_len(buffer') # msg_len(buffer)]_vars

\* an integrity attribute was appended after another attribute
C9_Witness ==
    /\ phase = "build" /\ Len(added) = 2
    /\ added[2].typ \in IntegrityTypes /\ added[2].res = "Ok"
    /\ msg_len(buffer) = Len(buffer) - STUN_HEADER_LENGTH

\* the step of an integrity decode
DecodedIntegrityNow == phase = "parsed" /\ dres' # dres /\ dres'.typ \in IntegrityTypes

\* C10: when the patched length does not fit 16 bits the integrity encode
\* and decode return the conversion error before any change: encode leaves
\* the length field alone and appends nothing after the attribute header,
\* decode does not override the declared length and hashes nothing.
C10_OverflowBeforeChange ==
    [][/\ AddedIntegrity =>
            LET D == added'[Len(added')].D
                patched_len == (Len(buffer) + ATTRIBUTE_HEADER_LEN + output_size(D))
                                   - STUN_HEADER_LENGTH
            IN  patched_len > U16_MAX =>
                    /\ added'[Len(added')].res = "TryFromIntError"
                    /\ bres' = "TryFromIntError"
                    /\ Len(buffer') = Len(buffer) + ATTRIBUTE_HEADER_LEN
                    /\ SubSeq(buffer', 1, Len(buffer)) = buffer
       /\ DecodedIntegrityNow =>
            (dres'.span.padding_end - STUN_HEADER_LENGTH > U16_MAX =>
                    /\ dres'.res = "TryFromIntError"
                    /\ ~dres'.hashed
                    /\ msg' = msg)]_vars

\* an encode ended with the conversion error, the buffer holds the
\* attribute header and no digest
C10_Witness ==
    /\ phase = "build" /\ Len(added) = 2 /\ added[2].D = "Sha1"
    /\ bres = "TryFromIntError"
    /\ Len(buffer) = added[2].hdr + ATTRIBUTE_HEADER_LEN
    /\ Len(buffer) + output_size("Sha1") - STUN_HEADER_LENGTH > U16_MAX

\* a decode ended with the conversion error
C10_WitnessDecode ==
    /\ DecodedIntegrity /\ dres.res = "TryFromIntError"
    /\ dres.span.padding_end - STUN_HEADER_LENGTH > U16_MAX

\* next to the limit the patched length still fits: encode and decode run
C10_WitnessFits ==
    \/ /\ phase = "build" /\ Len(added) = 2 /\ added[2].res = "Ok"
       /\ msg_len(buffer) = 65532
    \/ /\ DecodedIntegrity /\ dres.hashed /\ dres.len_seen = 65532

=============================================================================
